---------------------------- MODULE Spec2Model ----------------------------
(***************************************************************************)
(* DataCageMatch (src/main.py): a benchmark driver that loads partitioned  *)
(* tables into three engines (pandas, DuckDB, polars) and runs each        *)
(* configured experiment's query on all three.                             *)
(*                                                                         *)
(* Two state machines share this module:                                   *)
(*   Spec       main(): the load loop, the experiment loop, the report.    *)
(*   SpecAlias  the alias scan of run_experiment_pandas/_polars applied to *)
(*              every token sequence up to MaxLen over AliasVocab.         *)
(*                                                                         *)
(* A query is the sequence str.split() makes of its text.  Python indexes  *)
(* from 0, TLA+ from 1: parts[i + 1] of the source is parts[i + 1] here    *)
(* with i the 1-based position of the same token.                          *)
(***************************************************************************)
EXTENDS Integers, Sequences, FiniteSets, TLC

VARIABLES
    config,        \* load_config(): [tables, experiments]
    source,        \* the parquet files under data_path: rows per table name
    data,          \* main's dict `data`: name -> loaded frame
    duck,          \* the tables created in duckdb_conn
    load_times,    \* main's dict `load_times`: the tables timed so far
    results,       \* main's list `results`
    log,           \* every engine invocation made, in order, with its outcome
    ti,            \* position of the load loop in config.tables
    ei,            \* position of the experiment loop in config.experiments
    tj,            \* position of the inner loop in tables_in_experiment
    pc,            \* "main" | "crashed" (uncaught exception) | "done";
                   \* "idle" under SpecAlias
    printed,       \* the report has been printed
    query_parts,   \* SpecAlias: the token sequence under scan
    table_aliases, \* SpecAlias: the dict the scan built
    scan           \* SpecAlias: "input" | "resolved" | "raised";
                   \* "idle" under Spec

vars == <<config, source, data, duck, load_times, results, log, ti, ei, tj,
          pc, printed, query_parts, table_aliases, scan>>

mainVars == <<config, source, data, duck, load_times, results, log, ti, ei,
              tj, pc, printed>>
aliasVars == <<query_parts, table_aliases, scan>>

(***************************************************************************)
(* Bounds.                                                                 *)
(***************************************************************************)
MaxLen == 6     \* SpecAlias: longest token sequence scanned
MaxExps == 2    \* Spec: most experiments in a configuration

(***************************************************************************)
(* Tokens.                                                                 *)
(***************************************************************************)
\* str.upper() on the tokens of the model.  A token with a lower-case letter
\* is listed with its upper-case form; every other token of the model has
\* none and is its own upper-case form.
Upper(t) ==
    CASE t = "from" -> "FROM"
      [] t = "From" -> "FROM"
      [] t = "join" -> "JOIN"
      [] t = "where" -> "WHERE"
      [] t = "t" -> "T"
      [] t = "u" -> "U"
      [] t = "a" -> "A"
      [] t = "o" -> "O"
      [] t = "l" -> "L"
      [] t = "orders" -> "ORDERS"
      [] t = "lineitem" -> "LINEITEM"
      [] t = "customer" -> "CUSTOMER"
      [] t = "o.o_orderkey" -> "O.O_ORDERKEY"
      [] t = "l.l_orderkey" -> "L.L_ORDERKEY"
      [] t = "l.l_quantity" -> "L.L_QUANTITY"
      [] t = "o_orderdate" -> "O_ORDERDATE"
      [] t = "o_orderdate," -> "O_ORDERDATE,"
      [] t = "l_returnflag," -> "L_RETURNFLAG,"
      [] t = "l_linestatus" -> "L_LINESTATUS"
      [] t = "l_linestatus," -> "L_LINESTATUS,"
      [] t = "SUM(l_quantity)," -> "SUM(L_QUANTITY),"
      [] t = "SUM(l_extendedprice)" -> "SUM(L_EXTENDEDPRICE)"
      [] OTHER -> t

\* part.upper() in ['FROM', 'JOIN']
IsFromJoin(part) == Upper(part) \in {"FROM", "JOIN"}

\* ['WHERE', 'ON', 'ORDER', 'GROUP']
ClauseKeywords == {"WHERE", "ON", "ORDER", "GROUP"}

(***************************************************************************)
(* The alias scan (run_experiment_pandas lines 56-64, repeated verbatim  *)
(* in run_experiment_polars lines 110-118).                                *)
(***************************************************************************)
\* The empty dict.
EmptyDict == [x \in {} |-> x]

\* table_aliases[alias] = table_name
DictSet(d, k, v) == [x \in DOMAIN d \cup {k} |-> IF x = k THEN v ELSE d[x]]

\* d.get(k, k)
DictGetOrSelf(d, k) == IF k \in DOMAIN d THEN d[k] ELSE k

\* A first-declaration-wins variant of AliasStep.
AliasStepKeepFirst(aliases, parts, i) ==
    IF IsFromJoin(parts[i]) /\ i + 2 <= Len(parts)
         /\ parts[i + 2] \notin ClauseKeywords
         /\ parts[i + 2] \notin DOMAIN aliases
    THEN DictSet(aliases, parts[i + 2], parts[i + 1])
    ELSE aliases

\* One iteration of the loop body at a position whose following token exists.
AliasStep(aliases, parts, i) ==
    IF IsFromJoin(parts[i]) /\ i + 2 <= Len(parts)
         /\ parts[i + 2] \notin ClauseKeywords
    THEN DictSet(aliases, parts[i + 2], parts[i + 1])
    ELSE aliases

\* The loop from position i on: [exc, aliases].  query_parts[i + 1] is read
\* before the length test, so a FROM/JOIN in last position raises IndexError.
RECURSIVE ScanFrom(_, _, _)
ScanFrom(parts, i, aliases) ==
    IF i > Len(parts) THEN [exc |-> "none", aliases |-> aliases]
    ELSE IF IsFromJoin(parts[i]) /\ i + 1 > Len(parts)
         THEN [exc |-> "IndexError", aliases |-> aliases]
         ELSE ScanFrom(parts, i + 1, AliasStep(aliases, parts, i))

ResolveAliases(parts) == ScanFrom(parts, 1, EmptyDict)

(***************************************************************************)
(* Frames.  A frame is [cols, rows]; a row is a record with one field per  *)
(* column and an id that keeps equal rows apart (a frame is a multiset).   *)
(* A date cell is [dtype, ymd]: dtype "str" is the text as stored in the   *)
(* file, "datetime64" what pd.to_datetime makes of it, "date" what polars' *)
(* strptime(pl.Date) makes of it; ymd is the calendar day yyyymmdd.        *)
(***************************************************************************)
FilterVal == 30           \* merged_df['l_quantity'] > 30
RangeLo == 19950101       \* '1995-01-01'
RangeHi == 19951231       \* '1995-12-31'

OrdersCols == {"o_orderkey", "o_orderdate", "o_totalprice"}
LineitemCols == {"l_orderkey", "l_quantity", "l_returnflag", "l_linestatus",
                 "l_extendedprice"}

Order(id, key, ymd, price) ==
    [id |-> id, o_orderkey |-> key,
     o_orderdate |-> [dtype |-> "str", ymd |-> ymd], o_totalprice |-> price]

Line(id, key, qty, flag, status, price) ==
    [id |-> id, l_orderkey |-> key, l_quantity |-> qty, l_returnflag |-> flag,
     l_linestatus |-> status, l_extendedprice |-> price]

\* The file contents the model ranges over.
OrdersFiles ==
    { {Order(1, 1, 19941231, 100), Order(2, 2, 19950615, 250)},
      {Order(2, 2, 19950615, 250), Order(3, 1, 19951231, 40)} }

LineitemFiles ==
    { {Line(1, 1, 10, "A", "F", 5), Line(2, 1, 31, "A", "F", 7),
       Line(3, 2, 45, "R", "O", 9)},
      {Line(2, 1, 31, "A", "F", 7), Line(4, 2, 25, "R", "O", 3)},
      {Line(2, 1, 31, "A", "F", 7)} }

Sources ==
    { [t \in {"orders", "lineitem"} |->
          IF t = "orders" THEN [cols |-> OrdersCols, rows |-> o]
                          ELSE [cols |-> LineitemCols, rows |-> l]]
      : o \in OrdersFiles, l \in LineitemFiles }

HasCol(frame, c) == c \in frame.cols

\* pd.to_datetime(col): every cell becomes a datetime64 of the same day.
ToDatetime(cell) == [dtype |-> "datetime64", ymd |-> cell.ymd]

\* cast(pl.Utf8).str.strptime(pl.Date, "%Y-%m-%d"): a Date of the same day.
ToDate(cell) == [dtype |-> "date", ymd |-> cell.ymd]

\* table_df['o_orderdate'] = pd.to_datetime(table_df['o_orderdate'])
WithDatetimeColumn(frame) ==
    [frame EXCEPT !.rows =
        {[r EXCEPT !.o_orderdate = ToDatetime(r.o_orderdate)] : r \in frame.rows}]

\* data.with_columns(pl.col('o_orderdate')...strptime(pl.Date, ...))
WithDateColumn(frame) ==
    [frame EXCEPT !.rows =
        {[r EXCEPT !.o_orderdate = ToDate(r.o_orderdate)] : r \in frame.rows}]

RECURSIVE SumPrice(_)
SumPrice(rows) ==
    IF rows = {} THEN 0
    ELSE LET r == CHOOSE x \in rows : TRUE
         IN r.o_totalprice + SumPrice(rows \ {r})

RECURSIVE SumQuantity(_)
SumQuantity(rows) ==
    IF rows = {} THEN 0
    ELSE LET r == CHOOSE x \in rows : TRUE
         IN r.l_quantity + SumQuantity(rows \ {r})

RECURSIVE SumExtendedPrice(_)
SumExtendedPrice(rows) ==
    IF rows = {} THEN 0
    ELSE LET r == CHOOSE x \in rows : TRUE
         IN r.l_extendedprice + SumExtendedPrice(rows \ {r})

(***************************************************************************)
(* Loaders (lines 13-51).  The files of a configured table exist.          *)
(***************************************************************************)
load_data_pandas(table_name) == source[table_name]

load_data_duckdb(table_name) == source[table_name]

load_data_polars(table_name) ==
    IF HasCol(source[table_name], "o_orderdate")
    THEN WithDateColumn(source[table_name])
    ELSE source[table_name]

(***************************************************************************)
(* Results.  Every engine result is [kind, count, sum, groups]:            *)
(*   "count"  an integer row count (filtered_df.shape[0])                  *)
(*   "pair"   (len(filtered_df), sum of o_totalprice)                      *)
(*   "table"  the grouped frame                                            *)
(*   "None"   Python's None                                                *)
(*   "frame"  a DuckDB result frame the model does not look into           *)
(***************************************************************************)
Result(kind, count, sum, groups) ==
    [kind |-> kind, count |-> count, sum |-> sum, groups |-> groups]

NoneResult == Result("None", 0, 0, {})

\* What an invocation leaves behind: the exception raised ("none" when it
\* returns), the branch taken, the table names it resolved, the result, the
\* catalog as the call left it and the steps run, clock readings included.
Outcome(exc, shape, tables, result, catalog, steps) ==
    [exc |-> exc, shape |-> shape, tables |-> tables, result |-> result,
     data |-> catalog, steps |-> steps]

\* end_time - start_time: the steps run between the two clock readings.
RECURSIVE Between(_, _, _)
Between(steps, i, open) ==
    IF i > Len(steps) THEN <<>>
    ELSE IF steps[i] = "start_time" THEN Between(steps, i + 1, TRUE)
    ELSE IF steps[i] = "end_time" THEN <<>>
    ELSE IF open THEN <<steps[i]>> \o Between(steps, i + 1, open)
    ELSE Between(steps, i + 1, open)

Elapsed(steps) == Between(steps, 1, FALSE)

(***************************************************************************)
(* Query text tests.  The text is its tokens joined by single blanks.      *)
(***************************************************************************)
\* "COUNT(*)" in query: some token holds the substring.
CountStarTokens == {"COUNT(*)", "COUNT(*),"}
HasCountStar(parts) == \E i \in 1..Len(parts) : parts[i] \in CountStarTokens

\* "GROUP BY" in query
HasGroupBy(parts) ==
    \E i \in 1..(Len(parts) - 1) : parts[i] = "GROUP" /\ parts[i + 1] = "BY"

\* 'JOIN' in query_parts  /  the test list.index makes
HasToken(parts, tok) == \E i \in 1..Len(parts) : parts[i] = tok

\* query_parts.index(tok): the first position.
IndexOf(parts, tok) ==
    CHOOSE i \in 1..Len(parts) :
        parts[i] = tok /\ \A j \in 1..(i - 1) : parts[j] # tok

\* query_parts[k] for the 1-based position k; position 0 is Python's -1,
\* the last token.
At(parts, k) == IF k = 0 THEN parts[Len(parts)] ELSE parts[k]

(***************************************************************************)
(* The relational steps shared by the two dataframe engines.               *)
(***************************************************************************)
\* left.merge(right, left_on='o_orderkey', right_on='l_orderkey') then
\* the l_quantity > 30 filter, then shape[0].
JoinFilterCount(left, right) ==
    Cardinality({p \in left.rows \X right.rows :
                    /\ p[1].o_orderkey = p[2].l_orderkey
                    /\ p[2].l_quantity > FilterVal})

\* The columns the join branch reads.
JoinColumnsPresent(left, right) ==
    /\ HasCol(left, "o_orderkey")
    /\ HasCol(right, "l_orderkey")
    /\ HasCol(right, "l_quantity")

\* The rows whose o_orderdate lies in the inclusive range.
InDateRange(frame) ==
    {r \in frame.rows :
        r.o_orderdate.ymd >= RangeLo /\ r.o_orderdate.ymd <= RangeHi}

\* groupby(['l_returnflag', 'l_linestatus']).agg(sum, sum)
GroupSums(frame) ==
    LET keys == {<<r.l_returnflag, r.l_linestatus>> : r \in frame.rows}
        members(k) == {r \in frame.rows :
                          <<r.l_returnflag, r.l_linestatus>> = k}
    IN {[l_returnflag |-> k[1], l_linestatus |-> k[2],
         l_quantity |-> SumQuantity(members(k)),
         l_extendedprice |-> SumExtendedPrice(members(k))] : k \in keys}

GroupColumnsPresent(frame) ==
    {"l_returnflag", "l_linestatus", "l_quantity", "l_extendedprice"}
        \subseteq frame.cols

(***************************************************************************)
(* run_experiment_pandas (lines 53-98) and run_experiment_polars (lines    *)
(* 106-149).  The two bodies differ in the catalog key (polars appends     *)
(* "_polars") and in the in-place o_orderdate conversion, which only the   *)
(* pandas body has (lines 85-86).  "KeyError" names the lookup failure of  *)
(* either library (a missing dict key, a missing column).                  *)
(***************************************************************************)
\* The JOIN branch: lines 67-78 / 121-132.
JoinBranch(parts, aliases, catalog, suffix, steps) ==
    LET j == IndexOf(parts, "JOIN")
        left_table_alias == At(parts, j - 1)
        right_table_alias == At(parts, j + 1)
        left_table_name == DictGetOrSelf(aliases, left_table_alias) \o suffix
        right_table_name == DictGetOrSelf(aliases, right_table_alias) \o suffix
        names == <<left_table_name, right_table_name>>
    IN IF left_table_name \notin DOMAIN catalog
          \/ right_table_name \notin DOMAIN catalog
       THEN Outcome("KeyError", "EquiJoinFilter", names, NoneResult, catalog,
                    steps)
       ELSE IF ~JoinColumnsPresent(catalog[left_table_name],
                                   catalog[right_table_name])
       THEN Outcome("KeyError", "EquiJoinFilter", names, NoneResult, catalog,
                    steps \o <<"engine">>)
       ELSE Outcome("none", "EquiJoinFilter", names,
                    Result("count",
                           JoinFilterCount(catalog[left_table_name],
                                           catalog[right_table_name]),
                           0, {}),
                    catalog, steps \o <<"engine", "end_time">>)

\* The single-table branch once the frame is in hand: lines 88-95 / 139-146.
\* COUNT(*) on a frame with o_orderdate is tested first, GROUP BY second.
SingleTableBranch(parts, frame, names, catalog, steps) ==
    IF HasCountStar(parts) /\ HasCol(frame, "o_orderdate")
    THEN IF ~HasCol(frame, "o_totalprice")
         THEN Outcome("KeyError", "CountDateRange", names, NoneResult,
                      catalog, steps \o <<"classify", "engine">>)
         ELSE Outcome("none", "CountDateRange", names,
                      Result("pair", Cardinality(InDateRange(frame)),
                             SumPrice(InDateRange(frame)), {}),
                      catalog, steps \o <<"classify", "engine", "end_time">>)
    ELSE IF HasGroupBy(parts)
    THEN IF ~GroupColumnsPresent(frame)
         THEN Outcome("KeyError", "GroupAggregate", names, NoneResult,
                      catalog, steps \o <<"classify", "engine">>)
         ELSE Outcome("none", "GroupAggregate", names,
                      Result("table", 0, 0, GroupSums(frame)),
                      catalog, steps \o <<"classify", "engine", "end_time">>)
    ELSE Outcome("none", "Unsupported", names, NoneResult, catalog,
                 steps \o <<"classify", "end_time">>)

\* The else branch: lines 80-95 / 134-146.  `inplace` is the pandas body's
\* assignment to table_df['o_orderdate'], which writes the catalog's frame.
ElseBranch(parts, aliases, catalog, suffix, inplace, steps) ==
    IF ~HasToken(parts, "FROM")
    THEN Outcome("ValueError", "none", <<>>, NoneResult, catalog, steps)
    ELSE
    LET table_alias == At(parts, IndexOf(parts, "FROM") + 1)
        table_name == DictGetOrSelf(aliases, table_alias) \o suffix
        names == <<table_name>>
    IN IF table_name \notin DOMAIN catalog
       THEN Outcome("KeyError", "none", names, NoneResult, catalog, steps)
       ELSE IF inplace /\ HasCol(catalog[table_name], "o_orderdate")
       THEN LET written == [catalog EXCEPT ![table_name] =
                               WithDatetimeColumn(catalog[table_name])]
            IN SingleTableBranch(parts, written[table_name], names, written,
                                 steps \o <<"engine">>)
       ELSE SingleTableBranch(parts, catalog[table_name], names, catalog,
                              steps)

\* The body common to both functions: the clock is read first, then the
\* alias scan, then the JOIN test.
RunDataframe(parts, catalog, suffix, inplace) ==
    LET scanned == ResolveAliases(parts)
    IN IF scanned.exc # "none"
       THEN Outcome(scanned.exc, "none", <<>>, NoneResult, catalog,
                    <<"start_time", "resolve">>)
       ELSE IF HasToken(parts, "JOIN")
       THEN JoinBranch(parts, scanned.aliases, catalog, suffix,
                       <<"start_time", "resolve", "classify">>)
       ELSE ElseBranch(parts, scanned.aliases, catalog, suffix, inplace,
                       <<"start_time", "resolve", "classify">>)

run_experiment_pandas(query, catalog) == RunDataframe(query, catalog, "", TRUE)

run_experiment_polars(query, catalog) ==
    RunDataframe(query, catalog, "_polars", FALSE)

(***************************************************************************)
(* run_experiment_duckdb (lines 100-104): conn.execute(query) evaluates    *)
(* the text as SQL.  SQL keywords are case-insensitive; the tables a query *)
(* reads are the tokens after FROM and JOIN; a join query counts the pairs *)
(* with equal order keys that pass the WHERE comparison the text spells.   *)
(* The model looks into the result of join queries only.                   *)
(***************************************************************************)
\* The number a literal token spells.
NumberOf(tok) == CASE tok = "30" -> 30 [] tok = "20" -> 20

SqlTables(parts) ==
    {parts[i + 1] : i \in {k \in 1..(Len(parts) - 1) : IsFromJoin(parts[k])}}

SqlDangling(parts) == Len(parts) > 0 /\ IsFromJoin(parts[Len(parts)])

SqlIsJoin(parts) == \E i \in 1..Len(parts) : Upper(parts[i]) = "JOIN"

\* WHERE l.l_quantity > N
SqlHasQuantityFilter(parts) ==
    \E i \in 1..(Len(parts) - 1) : parts[i] = ">"

SqlThreshold(parts) ==
    NumberOf(parts[(CHOOSE i \in 1..(Len(parts) - 1) : parts[i] = ">") + 1])

SqlJoinCount(parts, conn) ==
    LET lefts == UNION {conn[t].rows : t \in {u \in SqlTables(parts) :
                                         HasCol(conn[u], "o_orderkey")}}
        rights == UNION {conn[t].rows : t \in {u \in SqlTables(parts) :
                                          HasCol(conn[u], "l_orderkey")}}
    IN Cardinality({p \in lefts \X rights :
                       /\ p[1].o_orderkey = p[2].l_orderkey
                       /\ (SqlHasQuantityFilter(parts)
                             => p[2].l_quantity > SqlThreshold(parts))})

SqlJoinColumnsPresent(parts, conn) ==
    {"o_orderkey", "l_orderkey", "l_quantity"}
        \subseteq UNION {conn[t].cols : t \in SqlTables(parts)}

run_experiment_duckdb(query, conn) ==
    IF SqlDangling(query)
    THEN Outcome("ParserException", "sql", <<>>, NoneResult, conn,
                 <<"start_time", "engine">>)
    ELSE IF ~(SqlTables(query) \subseteq DOMAIN conn)
    THEN Outcome("CatalogException", "sql", <<>>, NoneResult, conn,
                 <<"start_time", "engine">>)
    ELSE IF SqlIsJoin(query)
    THEN IF ~SqlJoinColumnsPresent(query, conn)
         THEN Outcome("BinderException", "sql", <<>>, NoneResult, conn,
                      <<"start_time", "engine">>)
         ELSE Outcome("none", "sql", <<>>,
                      Result("count", SqlJoinCount(query, conn), 0, {}),
                      conn, <<"start_time", "engine", "end_time">>)
    ELSE Outcome("none", "sql", <<>>, Result("frame", 0, 0, {}), conn,
                 <<"start_time", "engine", "end_time">>)

(***************************************************************************)
(* The configurations the model ranges over.                               *)
(***************************************************************************)
QJoin ==
    <<"SELECT", "COUNT(*)", "FROM", "orders", "o", "JOIN", "lineitem", "l",
      "ON", "o.o_orderkey", "=", "l.l_orderkey",
      "WHERE", "l.l_quantity", ">", "30">>
QJoin20 ==
    <<"SELECT", "COUNT(*)", "FROM", "orders", "o", "JOIN", "lineitem", "l",
      "ON", "o.o_orderkey", "=", "l.l_orderkey",
      "WHERE", "l.l_quantity", ">", "20">>
QJoinLower ==
    <<"SELECT", "COUNT(*)", "FROM", "orders", "o", "join", "lineitem", "l",
      "ON", "o.o_orderkey", "=", "l.l_orderkey",
      "WHERE", "l.l_quantity", ">", "30">>
QJoinSwapped ==
    <<"SELECT", "COUNT(*)", "FROM", "lineitem", "l", "JOIN", "orders", "o",
      "ON", "o.o_orderkey", "=", "l.l_orderkey",
      "WHERE", "l.l_quantity", ">", "30">>
QCount ==
    <<"SELECT", "COUNT(*)", "FROM", "orders", "o", "WHERE", "o_orderdate",
      "BETWEEN", "'1995-01-01'", "AND", "'1995-12-31'">>
QCountLower ==
    <<"SELECT", "COUNT(*)", "from", "orders", "o", "WHERE", "o_orderdate",
      "BETWEEN", "'1995-01-01'", "AND", "'1995-12-31'">>
QGroup ==
    <<"SELECT", "l_returnflag,", "l_linestatus,", "SUM(l_quantity),",
      "SUM(l_extendedprice)", "FROM", "lineitem",
      "GROUP", "BY", "l_returnflag,", "l_linestatus">>
QGroupCount ==
    <<"SELECT", "o_orderdate,", "COUNT(*)", "FROM", "orders",
      "GROUP", "BY", "o_orderdate">>
QPlain == <<"SELECT", "*", "FROM", "lineitem">>
QNoFrom == <<"SELECT", "1">>
QUnknownTable == <<"SELECT", "*", "FROM", "customer">>
QDangling == <<"SELECT", "*", "FROM">>
QDanglingJoin == <<"SELECT", "*", "FROM", "orders", "o", "join">>

Queries ==
    {QJoin, QJoin20, QJoinLower, QJoinSwapped, QCount, QCountLower, QGroup,
     QGroupCount, QPlain, QNoFrom, QUnknownTable, QDangling, QDanglingJoin}

\* An experiment's `table` entry and what
\* [tbl.strip() for tbl in experiment['table'].split(",")] makes of it.
TableEntries == {"orders", "lineitem", "orders, lineitem"}

SplitTables(entry) ==
    CASE entry = "orders" -> <<"orders">>
      [] entry = "lineitem" -> <<"lineitem">>
      [] entry = "orders, lineitem" -> <<"orders", "lineitem">>

TableLists == {<<"orders", "lineitem">>, <<"orders">>, <<"lineitem">>}

ExperimentLists ==
    UNION {
      {[i \in 1..n |-> [name |-> i, table |-> f[i][1], query |-> f[i][2]]] :
          f \in [1..n -> TableEntries \X Queries]}
      : n \in 1..MaxExps}

Configs ==
    {[tables |-> t, experiments |-> e] : t \in TableLists, e \in ExperimentLists}

(***************************************************************************)
(* main (lines 151-198).                                                   *)
(***************************************************************************)
IdleAlias ==
    /\ query_parts = <<>>
    /\ table_aliases = EmptyDict
    /\ scan = "idle"

Init ==
    /\ config \in Configs
    /\ source \in Sources
    /\ data = EmptyDict
    /\ duck = EmptyDict
    /\ load_times = {}
    /\ results = <<>>
    /\ log = <<>>
    /\ ti = 1 /\ ei = 1 /\ tj = 1
    /\ pc = "main"
    /\ printed = FALSE
    /\ IdleAlias

Loading == pc = "main" /\ ti <= Len(config.tables)

Running ==
    pc = "main" /\ ti > Len(config.tables) /\ ei <= Len(config.experiments)

tables_in_experiment == SplitTables(config.experiments[ei].table)

\* One iteration of the load loop: lines 157-162.
LoadTable ==
    /\ Loading
    /\ LET table == config.tables[ti]
       IN /\ data' = DictSet(DictSet(data, table, load_data_pandas(table)),
                             table \o "_polars", load_data_polars(table))
          /\ duck' = DictSet(duck, table, load_data_duckdb(table))
          /\ load_times' = load_times \cup {table}
    /\ ti' = ti + 1
    /\ UNCHANGED <<config, source, results, log, ei, tj, pc, printed,
                   aliasVars>>

\* The loops' step to the next table of the experiment, else the next
\* experiment.
Advance ==
    IF tj < Len(tables_in_experiment)
    THEN tj' = tj + 1 /\ ei' = ei
    ELSE tj' = 1 /\ ei' = ei + 1

LogEntry(engine, query, o) ==
    [exp |-> ei, engine |-> engine, query |-> query, exc |-> o.exc,
     shape |-> o.shape, tables |-> o.tables, result |-> o.result,
     steps |-> o.steps]

\* The dict appended at lines 176-184.
ResultRow(name, p, d, q) ==
    [experiment |-> name,
     pandas_result |-> p.result, pandas_time |-> Elapsed(p.steps),
     duckdb_result |-> d.result, duckdb_time |-> Elapsed(d.steps),
     polars_result |-> q.result, polars_time |-> Elapsed(q.steps)]

\* One iteration of the inner loop whose table is in `data`: lines 169-184.
\* The three engines run in turn; an exception from any of them is not
\* caught anywhere and ends main.
RunExperiment ==
    /\ Running
    /\ tables_in_experiment[tj] \in DOMAIN data
    /\ LET e == config.experiments[ei]
           p == run_experiment_pandas(e.query, data)
           d == run_experiment_duckdb(e.query, duck)
           q == run_experiment_polars(e.query, p.data)
       IN /\ data' = p.data
          /\ IF p.exc # "none"
             THEN /\ log' = Append(log, LogEntry("pandas", e.query, p))
                  /\ pc' = "crashed"
                  /\ UNCHANGED <<results, ei, tj>>
             ELSE IF d.exc # "none"
             THEN /\ log' = log \o <<LogEntry("pandas", e.query, p),
                                     LogEntry("duckdb", e.query, d)>>
                  /\ pc' = "crashed"
                  /\ UNCHANGED <<results, ei, tj>>
             ELSE IF q.exc # "none"
             THEN /\ log' = log \o <<LogEntry("pandas", e.query, p),
                                     LogEntry("duckdb", e.query, d),
                                     LogEntry("polars", e.query, q)>>
                  /\ pc' = "crashed"
                  /\ UNCHANGED <<results, ei, tj>>
             ELSE /\ log' = log \o <<LogEntry("pandas", e.query, p),
                                     LogEntry("duckdb", e.query, d),
                                     LogEntry("polars", e.query, q)>>
                  /\ results' = Append(results, ResultRow(e.name, p, d, q))
                  /\ pc' = pc
                  /\ Advance
    /\ UNCHANGED <<config, source, duck, load_times, ti, printed, aliasVars>>

\* One iteration of the inner loop whose table is not in `data`: line 186.
SkipTable ==
    /\ Running
    /\ tables_in_experiment[tj] \notin DOMAIN data
    /\ Advance
    /\ UNCHANGED <<config, source, data, duck, load_times, results, log, ti,
                   pc, printed, aliasVars>>

\* Both loops are over: the summary and the load times are printed
\* (lines 188-198) and main returns.
Report ==
    /\ pc = "main"
    /\ ti > Len(config.tables)
    /\ ei > Len(config.experiments)
    /\ printed' = TRUE
    /\ pc' = "done"
    /\ UNCHANGED <<config, source, data, duck, load_times, results, log, ti,
                   ei, tj, aliasVars>>

Next == LoadTable \/ RunExperiment \/ SkipTable \/ Report

Spec == Init /\ [][Next]_vars

(***************************************************************************)
(* SpecAlias: the scan on every token sequence up to MaxLen.               *)
(***************************************************************************)
AliasVocab == {"FROM", "join", "t", "u", "a", "WHERE"}

\* The main program's variables, idle while the scan is studied.
IdleMain ==
    /\ config = [tables |-> <<>>, experiments |-> <<>>]
    /\ source = EmptyDict
    /\ data = EmptyDict
    /\ duck = EmptyDict
    /\ load_times = {}
    /\ results = <<>>
    /\ log = <<>>
    /\ ti = 1 /\ ei = 1 /\ tj = 1
    /\ pc = "idle"
    /\ printed = FALSE

InitAlias ==
    /\ IdleMain
    /\ \E n \in 0..MaxLen : query_parts \in [1..n -> AliasVocab]
    /\ table_aliases = EmptyDict
    /\ scan = "input"

\* The scan runs to its end.
Resolve ==
    /\ scan = "input"
    /\ ResolveAliases(query_parts).exc = "none"
    /\ table_aliases' = ResolveAliases(query_parts).aliases
    /\ scan' = "resolved"
    /\ UNCHANGED <<query_parts, mainVars>>

\* The scan raises IndexError; the dict built so far is lost with the frame.
ResolveRaises ==
    /\ scan = "input"
    /\ ResolveAliases(query_parts).exc # "none"
    /\ scan' = "raised"
    /\ UNCHANGED <<query_parts, table_aliases, mainVars>>

NextAlias == Resolve \/ ResolveRaises

SpecAlias == InitAlias /\ [][NextAlias]_vars

(***************************************************************************)
(* Claims.                                                                 *)
(***************************************************************************)
\* The spellings of the two keywords the alias scan accepts.
FromJoinSpellings == {"FROM", "From", "from", "JOIN", "join"}

DataframeEngines == {"pandas", "polars"}

LogEntries == {log[k] : k \in 1..Len(log)}

ResultRows == {results[k] : k \in 1..Len(results)}

QueryOf(row) == config.experiments[row.experiment].query

\* C1: for a query that contains a JOIN token, the row count the row engine
\* reports, the one the SQL engine reports for the text as written and the
\* one the column engine reports are the same.
C1_JoinCountsAgree ==
    \A r \in ResultRows :
        HasToken(QueryOf(r), "JOIN") =>
            /\ r.pandas_result = r.duckdb_result
            /\ r.polars_result = r.duckdb_result

\* The shape the stated priority gives: JOIN, else GROUP BY, else COUNT(*)
\* on a table with o_orderdate, else Unsupported.
StatedShape(parts, hasDate) ==
    IF HasToken(parts, "JOIN") THEN "EquiJoinFilter"
    ELSE IF HasGroupBy(parts) THEN "GroupAggregate"
    ELSE IF HasCountStar(parts) /\ hasDate THEN "CountDateRange"
    ELSE "Unsupported"

\* C2: every row-engine and column-engine invocation that returns took the
\* shape of the stated priority; a query with GROUP BY and COUNT(*) on a
\* table with o_orderdate ran as GroupAggregate.
C2_ShapePriority ==
    \A e \in LogEntries :
        (e.engine \in DataframeEngines /\ e.exc = "none") =>
            e.shape = StatedShape(e.query,
                                  /\ Len(e.tables) = 1
                                  /\ HasCol(data[e.tables[1]], "o_orderdate"))

\* C3: a query with none of JOIN, GROUP BY and COUNT(*) makes the row and
\* column engines return None (Unsupported) without raising.
C3_UnknownIsUnsupported ==
    \A e \in LogEntries :
        (/\ e.engine \in DataframeEngines
         /\ ~HasToken(e.query, "JOIN")
         /\ ~HasGroupBy(e.query)
         /\ ~HasCountStar(e.query)) =>
            /\ e.exc = "none"
            /\ e.shape = "Unsupported"
            /\ e.result = NoneResult

\* C4: a query whose last token is FROM or JOIN, in any letter case, is
\* reported as malformed; the scan makes no read past the last token (the
\* read that Python answers with IndexError).
C4_DanglingIsMalformed ==
    \A e \in LogEntries :
        (/\ e.engine \in DataframeEngines
         /\ Len(e.query) > 0
         /\ e.query[Len(e.query)] \in FromJoinSpellings) =>
            e.exc = "MalformedQuery"

\* The engines invoked for experiment i.
EnginesRun(i) == {e.engine : e \in {x \in LogEntries : x.exp = i}}

\* C5: a failed engine invocation costs its own cell only: when main has
\* ended, the report is printed and every experiment that started has been
\* run on all three engines.
C5_FailureIsolated ==
    pc \in {"done", "crashed"} =>
        /\ printed
        /\ \A e \in LogEntries :
              EnginesRun(e.exp) = {"pandas", "duckdb", "polars"}

\* C6: at the end of a run whose experiments name loaded tables only, the
\* results hold one row per configured experiment, in configuration order,
\* however many tables an experiment names.
C6_OneRowPerExperiment ==
    (/\ pc = "done"
     /\ \A i \in 1..Len(config.experiments) :
           \A k \in 1..Len(SplitTables(config.experiments[i].table)) :
              SplitTables(config.experiments[i].table)[k] \in DOMAIN data) =>
        [k \in 1..Len(results) |-> results[k].experiment]
            = [i \in 1..Len(config.experiments) |-> config.experiments[i].name]

\* C7: once the load loop is over, no step changes a table of the catalog.
C7_CatalogReadOnly ==
    [][ti > Len(config.tables) => data' = data]_vars

\* A query with its FROM/JOIN tokens folded to upper case.
FoldKeywords(parts) ==
    [i \in 1..Len(parts) |->
        IF parts[i] \in FromJoinSpellings THEN Upper(parts[i]) ELSE parts[i]]

\* C8: two queries that differ only in the letter case of their FROM/JOIN
\* tokens behave alike on the row and column engines: same shape, same
\* resolved tables, neither raises.
C8_KeywordCaseInsensitive ==
    \A a, b \in LogEntries :
        (/\ a.engine = b.engine
         /\ a.engine \in DataframeEngines
         /\ FoldKeywords(a.query) = FoldKeywords(b.query)) =>
            /\ a.shape = b.shape
            /\ a.tables = b.tables
            /\ a.exc = b.exc

OnlyEngine(steps) == \A k \in 1..Len(steps) : steps[k] = "engine"

\* C9: the elapsed time recorded for the row and the column engine covers
\* the engine calls only: alias resolution and classification lie before
\* the start timestamp.
C9_TimesEngineOnly ==
    \A r \in ResultRows :
        OnlyEngine(r.pandas_time) /\ OnlyEngine(r.polars_time)

\* The positions that declare an alias: a FROM/JOIN with a token two places
\* on that is none of WHERE, ON, ORDER, GROUP.
Declarations(parts) ==
    {i \in 1..Len(parts) :
        /\ parts[i] \in FromJoinSpellings
        /\ i + 2 <= Len(parts)
        /\ parts[i + 2] \notin {"WHERE", "ON", "ORDER", "GROUP"}}

\* The last position that declares alias a.
LastDeclaration(parts, a) ==
    CHOOSE i \in Declarations(parts) :
        /\ parts[i + 2] = a
        /\ \A j \in Declarations(parts) : parts[j + 2] = a => j <= i

Declared(parts) == {parts[i + 2] : i \in Declarations(parts)}

\* Every FROM/JOIN has a token after it.
EveryKeywordFollowed(parts) ==
    \A i \in 1..Len(parts) : parts[i] \in FromJoinSpellings => i < Len(parts)

\* C10: when every FROM/JOIN is followed by a table token, the scan ends
\* with exactly the declared aliases, each mapped to the table of its last
\* declaration, and a name never declared resolves to itself.
C10_AliasMapExact ==
    (scan \in {"resolved", "raised"} /\ EveryKeywordFollowed(query_parts)) =>
        /\ scan = "resolved"
        /\ DOMAIN table_aliases = Declared(query_parts)
        /\ \A a \in Declared(query_parts) :
              table_aliases[a]
                  = query_parts[LastDeclaration(query_parts, a) + 1]
        /\ \A n \in AliasVocab \ Declared(query_parts) :
              DictGetOrSelf(table_aliases, n) = n

\* C10's case: an alias declared twice, for two tables, resolved to the
\* table of the later declaration.
C10_Witness ==
    /\ scan = "resolved"
    /\ \E i, j \in Declarations(query_parts) :
          /\ i < j
          /\ query_parts[i + 2] = query_parts[j + 2]
          /\ query_parts[i + 1] # query_parts[j + 1]
          /\ table_aliases[query_parts[j + 2]] = query_parts[j + 1]

=============================================================================
